---- MODULE Spec2Model ----
(***************************************************************************)
(* Model of the ingestion / normalisation / aggregation pipeline of        *)
(* src/src/App.tsx (handleFileChange and its helpers parseDate,            *)
(* minutesBetween, normalizeDigits).                                       *)
(*                                                                         *)
(* Conventions                                                             *)
(*  - A JavaScript string is a sequence of one-token strings.  The         *)
(*    Arabic-Indic digits U+0660..U+0669 are written "ar0".."ar9", the     *)
(*    six Arabic column labels are written by their field names.           *)
(*  - A time value (Date.getTime()) is an integer number of milliseconds   *)
(*    counted from the spreadsheet epoch 1899-12-30T00:00Z instead of      *)
(*    1970-01-01T00:00Z: the whole time axis is shifted by ExcelEpochDays  *)
(*    days so that the values fit the integers of the model checker.       *)
(*    Differences, ordering and hour-of-day are unaffected by the shift.   *)
(*  - "T | null" results are records [ok |-> BOOLEAN, v |-> T].            *)
(*  - A JavaScript number that is a quotient of two integers is the        *)
(*    record [num, den] (averages and percentages), compared by cross      *)
(*    multiplication.                                                      *)
(***************************************************************************)
EXTENDS Integers, Sequences, FiniteSets, TLC

(***************************************************************************)
(* Time units.                                                             *)
(***************************************************************************)
MsPerMinute == 1000 * 60
MsPerHour == 60 * MsPerMinute
MsPerDay == 24 * 60 * 60 * 1000

\* Date.UTC(1899, 11, 30) is 25569 days before 1970-01-01.
ExcelEpochDays == 25569

\* The local time zone of the browser, as Date.getHours() and the
\* Date(year, month, day) constructor see it: local = UTC + offset.
TimezoneOffsetMs == 3 * MsPerHour

\* The element of a one-element set.  {e(v) : v \in {x}} is e(x) with x
\* evaluated once.
TheOne(S) == CHOOSE r \in S : TRUE

Null == [ok |-> FALSE, v |-> 0]
Some(x) == [ok |-> TRUE, v |-> x]

(***************************************************************************)
(* Strings.                                                                *)
(***************************************************************************)
arabicDigitMap ==
    [c \in {"ar0", "ar1", "ar2", "ar3", "ar4", "ar5", "ar6", "ar7", "ar8", "ar9"} |->
        CASE c = "ar0" -> "0" [] c = "ar1" -> "1" [] c = "ar2" -> "2"
          [] c = "ar3" -> "3" [] c = "ar4" -> "4" [] c = "ar5" -> "5"
          [] c = "ar6" -> "6" [] c = "ar7" -> "7" [] c = "ar8" -> "8"
          [] c = "ar9" -> "9"]

normalizeDigits(value) ==
    [i \in 1..Len(value) |->
        IF value[i] \in DOMAIN arabicDigitMap THEN arabicDigitMap[value[i]]
        ELSE value[i]]

RECURSIVE TrimStart(_)
TrimStart(s) ==
    IF s # <<>> /\ Head(s) = " " THEN TrimStart(Tail(s)) ELSE s

RECURSIVE TrimEnd(_)
TrimEnd(s) ==
    IF s # <<>> /\ s[Len(s)] = " " THEN TrimEnd(SubSeq(s, 1, Len(s) - 1)) ELSE s

\* String.prototype.trim
Trim(s) == TrimEnd(TrimStart(s))

DigitValue ==
    [c \in {"0", "1", "2", "3", "4", "5", "6", "7", "8", "9"} |->
        CASE c = "0" -> 0 [] c = "1" -> 1 [] c = "2" -> 2 [] c = "3" -> 3
          [] c = "4" -> 4 [] c = "5" -> 5 [] c = "6" -> 6 [] c = "7" -> 7
          [] c = "8" -> 8 [] c = "9" -> 9]

DigitChar == [d \in 0..9 |-> CHOOSE c \in DOMAIN DigitValue : DigitValue[c] = d]

IsDigits(s) == \A i \in 1..Len(s) : s[i] \in DOMAIN DigitValue

RECURSIVE DigitsValue(_)
DigitsValue(s) ==
    IF s = <<>> THEN 0
    ELSE 10 * DigitsValue(SubSeq(s, 1, Len(s) - 1)) + DigitValue[s[Len(s)]]

\* Number(part) for a part over the alphabet of the model (digits, blanks,
\* letters, ":"): blank is 0, a digit string is its value, the rest is NaN.
ToNumber(part) ==
    LET t == Trim(part)
    IN IF IsDigits(t) THEN Some(DigitsValue(t)) ELSE Null

RECURSIVE NatToString(_)
NatToString(n) ==
    IF n < 10 THEN <<DigitChar[n]>>
    ELSE NatToString(n \div 10) \o <<DigitChar[n % 10]>>

\* String(value ?? "") for the cells a text column carries.
StringOf(cell) ==
    CASE cell.kind = "null" -> <<>>
      [] cell.kind = "string" -> cell.s
      [] cell.kind = "number" ->
            IF cell.n < 0 THEN <<"-">> \o NatToString(-cell.n) ELSE NatToString(cell.n)

\* String.prototype.split(/[\/\-\.]/)
Separators == {"/", "-", "."}

RECURSIVE Split(_)
Split(s) ==
    IF \E i \in 1..Len(s) : s[i] \in Separators
    THEN LET i == CHOOSE k \in 1..Len(s) :
                    s[k] \in Separators /\ \A j \in 1..(k - 1) : s[j] \notin Separators
         IN <<SubSeq(s, 1, i - 1)>> \o Split(SubSeq(s, i + 1, Len(s)))
    ELSE <<s>>

(***************************************************************************)
(* Dates.                                                                  *)
(***************************************************************************)
\* Days from the spreadsheet epoch to the first day of month m (1..12) of
\* year y in the proleptic Gregorian calendar (ECMAScript MakeDay); yy is
\* the year counted from March.
DaysOfShiftedYear(yy, m) ==
    (yy \div 400) * 146097
      + (yy % 400) * 365 + (yy % 400) \div 4 - (yy % 400) \div 100
      + (153 * ((m + 9) % 12) + 2) \div 5
      - 719468 + ExcelEpochDays

DaysFromCivil(y, mn) ==
    DaysOfShiftedYear(IF mn + 1 <= 2 THEN y - 1 ELSE y, mn + 1)

\* MakeDay(year, month, date) * msPerDay, month being a 0-based index that
\* may lie outside 0..11.
MakeDayMs(year, month, date) ==
    (DaysFromCivil(year + (month \div 12), month % 12) + date - 1) * MsPerDay

\* new Date(year, monthIndex, day): local midnight; a year in 0..99 means
\* 1900 + year.
LocalDate(year, monthIndex, day) ==
    MakeDayMs(IF year >= 0 /\ year <= 99 THEN 1900 + year ELSE year,
              monthIndex, day) - TimezoneOffsetMs

\* The number written in positions a..b of s.
NumberAt(s, a, b) == DigitsValue(SubSeq(s, a, b))

IsoDateOk(s) ==
    /\ Len(s) >= 10
    /\ IsDigits(SubSeq(s, 1, 4)) /\ s[5] = "-"
    /\ IsDigits(SubSeq(s, 6, 7)) /\ s[8] = "-"
    /\ IsDigits(SubSeq(s, 9, 10))
    /\ NumberAt(s, 6, 7) \in 1..12 /\ NumberAt(s, 9, 10) \in 1..31

IsoTimeOk(s) ==
    /\ Len(s) = 16 /\ s[11] = "T"
    /\ IsDigits(SubSeq(s, 12, 13)) /\ s[14] = ":"
    /\ IsDigits(SubSeq(s, 15, 16))
    /\ NumberAt(s, 12, 13) \in 0..23 /\ NumberAt(s, 15, 16) \in 0..59

IsoDay(s) == MakeDayMs(NumberAt(s, 1, 4), NumberAt(s, 6, 7) - 1, NumberAt(s, 9, 10))

\* new Date(text) for the two ISO 8601 forms of the ECMAScript date-time
\* string format used by the model: "YYYY-MM-DD" (UTC) and
\* "YYYY-MM-DDTHH:mm" (local time).  Any other text is an Invalid Date.
DateParse(s) ==
    IF ~IsoDateOk(s) THEN Null
    ELSE IF Len(s) = 10 THEN Some(IsoDay(s))
    ELSE IF IsoTimeOk(s)
         THEN Some(IsoDay(s) + NumberAt(s, 12, 13) * MsPerHour
                     + NumberAt(s, 15, 16) * MsPerMinute - TimezoneOffsetMs)
         ELSE Null

\* Date.prototype.getHours
getHours(t) == ((t + TimezoneOffsetMs) % MsPerDay) \div MsPerHour

\* Lines 83-85: day, month and year are Number(part) of the first three
\* parts.
fallbackDate(day, month, year) ==
    IF day.ok /\ month.ok /\ year.ok
    THEN Some(LocalDate(year.v, month.v - 1, day.v))
    ELSE Null

\* Lines 81-86: parts is normalized.split(separators).
parseDateParts(parts) ==
    IF Len(parts) >= 3
    THEN fallbackDate(ToNumber(Trim(parts[1])), ToNumber(Trim(parts[2])),
                      ToNumber(Trim(parts[3])))
    ELSE Null

\* Lines 75-87: parsed is new Date(normalized).
parseDateParsed(parsed, normalized) ==
    IF parsed.ok THEN parsed
    ELSE IF \E i \in 1..Len(normalized) : normalized[i] \in Separators
         THEN parseDateParts(Split(normalized))
         ELSE Null

\* Lines 70-87.
parseDateText(normalized) ==
    IF normalized = <<>> THEN Null
    ELSE parseDateParsed(DateParse(normalized), normalized)

\* The numeric branch never yields an Invalid Date for the finite day
\* counts a sheet cell carries.
parseDate(value) ==
    IF value.kind = "date" /\ value.valid THEN Some(value.t)
    ELSE IF value.kind = "number" THEN Some(value.n * 24 * 60 * 60 * 1000)
    ELSE IF value.kind = "string" THEN parseDateText(normalizeDigits(Trim(value.s)))
    ELSE Null

\* minutesBetween testing the sign after rounding instead of before.
minutesBetweenRoundFirst(start, end) ==
    LET rounded == ((end - start) + (MsPerMinute \div 2)) \div MsPerMinute
    IN IF rounded < 0 THEN Null ELSE Some(rounded)

\* diff < 0 exactly when end - start < 0, and diff is always finite for the
\* valid dates the callers pass.  Math.round(diff) for integer millisecond
\* values is the nearest integer, a tie going up.
minutesBetween(start, end) ==
    LET diffMs == end - start
    IN IF diffMs < 0 THEN Null
       ELSE Some((diffMs + (MsPerMinute \div 2)) \div MsPerMinute)

(***************************************************************************)
(* The body of handleFileChange after the read (lines 130-274).            *)
(***************************************************************************)
REQUIRED_COLUMNS ==
    <<"patientCode", "userName", "doctorName", "sentDate", "deliveredDate",
      "approvedDate">>

HandlingSlaMinutes == 20
WaitingSlaMinutes == 10
PeakHourCount == 3

\* Lines 183-202: the three durations are minutesBetween results.
emitRow(texts, sentDate, deliveredDate, approvedDate, waitingTime, handlingTime, totalTat) ==
    IF ~waitingTime.ok \/ ~handlingTime.ok \/ ~totalTat.ok
    THEN Null
    ELSE Some([patientCode |-> texts[1],
               userName |-> texts[2],
               doctorName |-> texts[3],
               sentDate |-> sentDate,
               deliveredDate |-> deliveredDate,
               approvedDate |-> approvedDate,
               waitingTime |-> waitingTime.v,
               handlingTime |-> handlingTime.v,
               totalTat |-> totalTat.v])

\* Lines 167-202: texts is <<patientCode, userName, doctorName>> and the
\* dates are parseDate results.
checkRow(texts, sentDate, deliveredDate, approvedDate) ==
    IF \/ texts[1] = <<>> \/ texts[2] = <<>> \/ texts[3] = <<>>
       \/ ~sentDate.ok \/ ~deliveredDate.ok \/ ~approvedDate.ok
    THEN Null
    ELSE emitRow(texts, sentDate.v, deliveredDate.v, approvedDate.v,
                 minutesBetween(sentDate.v, deliveredDate.v),
                 minutesBetween(deliveredDate.v, approvedDate.v),
                 minutesBetween(sentDate.v, approvedDate.v))

\* One callback of rows.forEach (lines 159-203): a ParsedRow, or a skip.
transformRow(row) ==
    checkRow(<<Trim(StringOf(row.patientCode)),
               Trim(StringOf(row.userName)),
               Trim(StringOf(row.doctorName))>>,
             parseDate(row.sentDate),
             parseDate(row.deliveredDate),
             parseDate(row.approvedDate))

\* transformRows leaving the loop at the first skipped row.
RECURSIVE transformRowsStopAtSkip(_, _)
transformRowsStopAtSkip(rows, acc) ==
    IF rows = <<>> THEN acc
    ELSE LET r == transformRow(Head(rows))
         IN IF r.ok
            THEN transformRowsStopAtSkip(Tail(rows),
                     [acc EXCEPT !.parsed = Append(@, r.v)])
            ELSE [acc EXCEPT !.skipped = @ + 1]

\* rows.forEach over the locals skipped and parsed (lines 156-203).
RECURSIVE transformRows(_, _)
transformRows(rows, acc) ==
    IF rows = <<>> THEN acc
    ELSE LET r == transformRow(Head(rows))
         IN transformRows(Tail(rows),
                IF r.ok THEN [acc EXCEPT !.parsed = Append(@, r.v)]
                ELSE [acc EXCEPT !.skipped = @ + 1])

agentEntryBump(a, row, slaMet) ==
    [a EXCEPT !.total = @ + 1,
              !.handlingSum = @ + row.handlingTime,
              !.handlingSlaCount = IF slaMet THEN @ + 1 ELSE @]

freshAgent(userName) ==
    [userName |-> userName, total |-> 0, handlingSum |-> 0, handlingSlaCount |-> 0]

\* agentMapUpdate never finding the entry of an agent already seen.
agentMapUpdateAlwaysFresh(agentMap, row) ==
    Append(agentMap,
           agentEntryBump(freshAgent(row.userName), row,
                          row.handlingTime <= HandlingSlaMinutes))

\* agentMapUpdate with the SLA threshold exclusive.
agentMapUpdateExclusive(agentMap, row) ==
    LET found == {i \in 1..Len(agentMap) : agentMap[i].userName = row.userName}
        bump(a) == agentEntryBump(a, row, row.handlingTime < HandlingSlaMinutes)
    IN IF found = {} THEN Append(agentMap, bump(freshAgent(row.userName)))
       ELSE [i \in 1..Len(agentMap) |->
                IF i \in found THEN bump(agentMap[i]) ELSE agentMap[i]]

\* agentMap.get(userName) ?? fresh; update; agentMap.set (lines 221-231).
\* The Map is a sequence of entries in insertion order.
agentMapUpdate(agentMap, row) ==
    LET found == {i \in 1..Len(agentMap) : agentMap[i].userName = row.userName}
        bump(a) == agentEntryBump(a, row, row.handlingTime <= HandlingSlaMinutes)
    IN IF found = {} THEN Append(agentMap, bump(freshAgent(row.userName)))
       ELSE [i \in 1..Len(agentMap) |->
                IF i \in found THEN bump(agentMap[i]) ELSE agentMap[i]]

\* parsed.forEach (lines 220-240).
RECURSIVE aggregate(_, _)
aggregate(parsed, acc) ==
    IF parsed = <<>> THEN acc
    ELSE LET row == Head(parsed)
             hour == getHours(row.sentDate)
         IN aggregate(Tail(parsed),
                [agentMap |-> agentMapUpdate(acc.agentMap, row),
                 waitingSum |-> acc.waitingSum + row.waitingTime,
                 waitingSlaCount |->
                     IF row.waitingTime <= WaitingSlaMinutes
                     THEN acc.waitingSlaCount + 1 ELSE acc.waitingSlaCount,
                 peakHours |-> [acc.peakHours EXCEPT ![hour + 1].count = @ + 1]])

\* The position each element takes in a stable descending sort by keys:
\* 1 + the number of elements that precede it, which are those with a
\* larger key and the earlier ones with an equal key.
RanksDesc(keys) ==
    TheOne({[i \in DOMAIN k |->
                1 + Cardinality({j \in DOMAIN k :
                        k[j] > k[i] \/ (k[j] = k[i] /\ j < i)})] : k \in {keys}})

\* Array.prototype.sort((a, b) => key(b) - key(a)), keys[i] being key(s[i]):
\* stable, descending.
StableSortDesc(s, keys) ==
    TheOne({[n \in 1..Len(v) |-> v[CHOOSE i \in 1..Len(v) : rank[i] = n]] :
                v \in {s}, rank \in {RanksDesc(keys)}})

\* Lines 242-249.
toAgentMetrics(agentMap) ==
    [i \in 1..Len(agentMap) |->
        [userName |-> agentMap[i].userName,
         totalRequests |-> agentMap[i].total,
         averageHandlingTime |->
             [num |-> agentMap[i].handlingSum, den |-> agentMap[i].total],
         handlingSla |->
             [num |-> agentMap[i].handlingSlaCount * 100, den |-> agentMap[i].total]]]

\* sortAgents leaving the Map's insertion order.
sortAgentsNone(agentMetrics) == agentMetrics

\* Line 251.
sortAgents(agentMetrics) ==
    StableSortDesc(agentMetrics,
        [i \in 1..Len(agentMetrics) |-> agentMetrics[i].totalRequests])

\* topHours taking the first three buckets before sorting.
topHoursSliceFirst(peakHours) ==
    LET positive(item) == item.count > 0
        first == SubSeq(peakHours, 1, PeakHourCount)
    IN SelectSeq(StableSortDesc(first, [i \in 1..Len(first) |-> first[i].count]),
                 positive)

\* Lines 253-256.
topHours(peakHours) ==
    LET positive(item) == item.count > 0
        sorted == StableSortDesc(peakHours,
                      [i \in 1..Len(peakHours) |-> peakHours[i].count])
    IN SelectSeq(SubSeq(sorted, 1, PeakHourCount), positive)

emptyPeakHours == [i \in 1..24 |-> [hour |-> i - 1, count |-> 0]]

NoError == [kind |-> "null", columns |-> <<>>]
ErrorOf(kind) == [kind |-> kind, columns |-> <<>>]

\* What an invocation that throws leaves: the error, the local skipped
\* and nothing to publish.
thrown(e, skipped) ==
    [error |-> e, skipped |-> skipped, parsed |-> <<>>,
     agentMetrics |-> <<>>, teamStats |-> Null]

\* Lines 242-262: t holds the locals skipped and parsed, a the
\* accumulators of parsed.forEach.
finish(t, a) ==
    [error |-> NoError,
     skipped |-> t.skipped,
     parsed |-> t.parsed,
     agentMetrics |-> sortAgents(toAgentMetrics(a.agentMap)),
     teamStats |->
         Some([averageWaitingTime |-> [num |-> a.waitingSum, den |-> Len(t.parsed)],
               assignmentSla |->
                   [num |-> a.waitingSlaCount * 100, den |-> Len(t.parsed)],
               peakHours |-> topHours(a.peakHours)])]

\* Lines 205-262: t holds the locals skipped and parsed after rows.forEach.
afterRows(t) ==
    IF Len(t.parsed) = 0 THEN thrown(ErrorOf("NoValidRows"), t.skipped)
    ELSE finish(t, aggregate(t.parsed,
                    [agentMap |-> <<>>, waitingSum |-> 0, waitingSlaCount |-> 0,
                     peakHours |-> emptyPeakHours]))

\* Lines 146-154.
missingColumnsOf(file) ==
    LET absent(column) == column \notin file.columns
    IN SelectSeq(REQUIRED_COLUMNS, absent)

\* Everything between the await and the end of the try block, as one value:
\* the error thrown (if any), the locals at that point and the values the
\* four setters would publish.
Process(file) ==
    IF ~file.readable THEN thrown(ErrorOf("Unexpected"), 0)
    ELSE IF ~file.hasSheet THEN thrown(ErrorOf("MissingSheet"), 0)
    ELSE IF Len(file.rows) = 0 THEN thrown(ErrorOf("NoRows"), 0)
    ELSE IF Len(missingColumnsOf(file)) # 0
         THEN thrown([kind |-> "MissingColumns", columns |-> missingColumnsOf(file)], 0)
    ELSE afterRows(transformRows(file.rows, [skipped |-> 0, parsed |-> <<>>]))

(***************************************************************************)
(* Inputs: cells, rows and files.                                          *)
(***************************************************************************)
\* Bounds of the model.
MaxRows == 4
MaxPending == 2
MaxPermRows == 3
MaxHalfMinutes == 4

NullCell == [kind |-> "null"]
TextCell(s) == [kind |-> "string", s |-> s]
NumberCell(n) == [kind |-> "number", n |-> n]
DateCell(t) == [kind |-> "date", valid |-> TRUE, t |-> t]
InvalidDateCell == [kind |-> "date", valid |-> FALSE, t |-> 0]

\* The time value of local clock time h:m:s on 1899-12-31.
At(h, m, sec) ==
    MsPerDay - TimezoneOffsetMs + h * MsPerHour + m * MsPerMinute + sec * 1000

Row(code, user, doctor, sent, delivered, approved) ==
    [patientCode |-> code, userName |-> user, doctorName |-> doctor,
     sentDate |-> sent, deliveredDate |-> delivered, approvedDate |-> approved]

\* 09:00 / 09:05 / 09:20.
RowA ==
    Row(TextCell(<<"p", "1">>), TextCell(<<"u", "1">>), TextCell(<<"d", "1">>),
        DateCell(At(9, 0, 0)), DateCell(At(9, 5, 0)), DateCell(At(9, 20, 0)))

\* Both durations exactly on their SLA thresholds; the agent name is padded.
RowThreshold ==
    Row(TextCell(<<"p", "2">>), TextCell(<<" ", "u", "1", " ">>), TextCell(<<"d", "1">>),
        DateCell(At(9, 30, 0)), DateCell(At(9, 40, 0)), DateCell(At(10, 0, 0)))

\* Both durations one minute above their thresholds.
RowSlow ==
    Row(TextCell(<<"p", "3">>), TextCell(<<"u", "2">>), TextCell(<<"d", "2">>),
        DateCell(At(10, 0, 0)), DateCell(At(10, 11, 0)), DateCell(At(10, 32, 0)))

\* Two gaps of half a minute each; the patient code is a numeric cell.
RowHalfMinutes ==
    Row(NumberCell(7), TextCell(<<"u", "2">>), TextCell(<<"d", "1">>),
        DateCell(At(11, 0, 0)), DateCell(At(11, 0, 30)), DateCell(At(11, 1, 0)))

\* Dates as text and as a day count: " <ar3><ar1>/12/1899 " (day/month/year
\* fallback, Arabic-Indic digits), the number 1, and "1899-12-31T04:00".
RowText ==
    Row(TextCell(<<"p", "4">>), TextCell(<<"u", "3">>), TextCell(<<"d", "2">>),
        TextCell(<<" ", "ar3", "ar1", "/", "1", "2", "/", "1", "8", "9", "9", " ">>),
        NumberCell(1),
        TextCell(<<"1", "8", "9", "9", "-", "1", "2", "-", "3", "1", "T",
                   "0", "4", ":", "0", "0">>))

RowNoDoctor ==
    Row(TextCell(<<"p", "5">>), TextCell(<<"u", "1">>), NullCell,
        DateCell(At(9, 0, 0)), DateCell(At(9, 5, 0)), DateCell(At(9, 20, 0)))

RowBlankCode ==
    Row(TextCell(<<" ", " ">>), TextCell(<<"u", "2">>), TextCell(<<"d", "1">>),
        DateCell(At(9, 0, 0)), DateCell(At(9, 5, 0)), DateCell(At(9, 20, 0)))

RowInvalidDate ==
    Row(TextCell(<<"p", "8">>), TextCell(<<"u", "3">>), TextCell(<<"d", "1">>),
        DateCell(At(9, 0, 0)), InvalidDateCell, DateCell(At(9, 20, 0)))

RowBadDate ==
    Row(TextCell(<<"p", "6">>), TextCell(<<"u", "1">>), TextCell(<<"d", "1">>),
        DateCell(At(9, 0, 0)), DateCell(At(9, 5, 0)), TextCell(<<"a", "b", "c">>))

\* Delivered 20 seconds before it was sent.
RowBackwards ==
    Row(TextCell(<<"p", "7">>), TextCell(<<"u", "2">>), TextCell(<<"d", "2">>),
        DateCell(At(12, 0, 20)), DateCell(At(12, 0, 0)), DateCell(At(12, 10, 0)))

RowPool ==
    {RowA, RowThreshold, RowSlow, RowHalfMinutes, RowText,
     RowNoDoctor, RowBlankCode, RowInvalidDate, RowBadDate, RowBackwards}

PermRowPool == {RowA, RowThreshold, RowSlow, RowText, RowNoDoctor}

SeqsUpTo(S, n) == UNION {[1..k -> S] : k \in 0..n}

RequiredSet == {REQUIRED_COLUMNS[i] : i \in 1..Len(REQUIRED_COLUMNS)}

\* A File and what XLSX.read / sheet_to_json (defval: null) make of it:
\* whether it can be read at all, whether it holds the sheet "ag-grid", the
\* header names and the data rows (every row carries every header).
FileOf(name, readable, hasSheet, columns, rows) ==
    [name |-> name, readable |-> readable, hasSheet |-> hasSheet,
     columns |-> columns, rows |-> rows]

SheetFile(name, rows) == FileOf(name, TRUE, TRUE, RequiredSet, rows)

Files ==
    {FileOf("corrupt.xlsx", FALSE, FALSE, {}, <<>>),
     FileOf("nosheet.xlsx", TRUE, FALSE, {}, <<>>),
     FileOf("nodoctor.xlsx", TRUE, TRUE, RequiredSet \ {"doctorName"}, <<RowA>>),
     FileOf("nodates.xlsx", TRUE, TRUE,
            {"patientCode", "userName", "doctorName"}, <<RowA, RowSlow>>)}
    \cup {SheetFile("upload.xlsx", rows) : rows \in SeqsUpTo(RowPool, MaxRows)}

RaceFiles ==
    {SheetFile("a.xlsx", <<RowA>>),
     SheetFile("b.xlsx", <<RowSlow, RowNoDoctor>>),
     SheetFile("c.xlsx", <<RowNoDoctor>>),
     FileOf("d.xlsx", TRUE, FALSE, {}, <<>>),
     SheetFile("e.xlsx", <<RowThreshold, RowHalfMinutes>>)}

(***************************************************************************)
(* State.                                                                  *)
(***************************************************************************)
VARIABLES
    error,          \* useState: NoError or the message shown
    fileName,       \* useState: Null or Some(name)
    parsedRows,     \* useState
    agents,         \* useState
    teamMetrics,    \* useState: Null or Some(TeamMetrics)
    skippedCount,   \* useState
    inputFile,      \* event.target.files[0] of the latest change event
    pending,        \* files whose arrayBuffer() promise has not resolved yet
    exit,           \* the invocation that ran to its end in the last step
    start, end, minutes,        \* minutesBetween on its own
    sheetRows, order, outcomes  \* a sheet processed in two row orders

vars == <<error, fileName, parsedRows, agents, teamMetrics, skippedCount,
          inputFile, pending, exit, start, end, minutes, sheetRows, order,
          outcomes>>

appVars == <<error, fileName, parsedRows, agents, teamMetrics, skippedCount,
             inputFile, pending, exit>>
minutesVars == <<start, end, minutes>>
orderVars == <<sheetRows, order, outcomes>>

NoExit == [done |-> FALSE, file |-> Null, skipped |-> 0, parsed |-> <<>>]

AppInit ==
    /\ error = NoError
    /\ fileName = Null
    /\ parsedRows = <<>>
    /\ agents = <<>>
    /\ teamMetrics = Null
    /\ skippedCount = 0
    /\ inputFile = Null
    /\ pending = <<>>
    /\ exit = NoExit

RemoveAt(s, i) == SubSeq(s, 1, i - 1) \o SubSeq(s, i + 1, Len(s))

\* Lines 113-129 with a file chosen: clear the display, show the name, start
\* the read and suspend.
handleFileChange(file) ==
    /\ error' = NoError
    /\ parsedRows' = <<>>
    /\ agents' = <<>>
    /\ teamMetrics' = Null
    /\ skippedCount' = 0
    /\ fileName' = Some(file.name)
    /\ inputFile' = Some(file)
    /\ pending' = Append(pending, file)
    /\ exit' = NoExit
    /\ UNCHANGED <<minutesVars, orderVars>>

\* Lines 113-124 with no file chosen.
handleFileChangeNoFile ==
    /\ error' = NoError
    /\ parsedRows' = <<>>
    /\ agents' = <<>>
    /\ teamMetrics' = Null
    /\ skippedCount' = 0
    /\ fileName' = Null
    /\ inputFile' = Null
    /\ exit' = NoExit
    /\ UNCHANGED <<pending, minutesVars, orderVars>>

\* Lines 129-274: the read of pending[i] resolves (or rejects) and the rest
\* of that invocation runs to its end without suspending again.
handleFileChangeResume(i) ==
    \E out \in {Process(pending[i])} :
    LET file == pending[i]
    IN /\ pending' = RemoveAt(pending, i)
       /\ exit' = [done |-> TRUE, file |-> Some(file), skipped |-> out.skipped,
                   parsed |-> out.parsed]
       /\ IF out.error = NoError
          THEN /\ parsedRows' = out.parsed
               /\ agents' = out.agentMetrics
               /\ teamMetrics' = out.teamStats
               /\ skippedCount' = out.skipped
               /\ UNCHANGED error
          ELSE /\ error' = out.error
               /\ UNCHANGED <<parsedRows, agents, teamMetrics, skippedCount>>
       /\ UNCHANGED <<fileName, inputFile, minutesVars, orderVars>>

MinutesIdle == start = 0 /\ end = 0 /\ minutes = <<>>
OrderIdle == sheetRows = <<>> /\ order = <<>> /\ outcomes = <<>>
PureIdle == MinutesIdle /\ OrderIdle

\* One run at a time: the user picks a file into the empty input and waits
\* for the read; the input is emptied before the next file is picked.  As
\* handleFileChange overwrites every state variable before it reads any,
\* the states a run can reach do not depend on what was shown before it.
Init == AppInit /\ PureIdle

SelectOne ==
    /\ pending = <<>>
    /\ ~inputFile.ok
    /\ \E file \in Files : handleFileChange(file)
SelectNothing == pending = <<>> /\ handleFileChangeNoFile
Resume == \E i \in 1..Len(pending) : handleFileChangeResume(i)

Next == SelectOne \/ SelectNothing \/ Resume

Spec == Init /\ [][Next]_vars

\* Overlapping selections: up to MaxPending reads in flight, resolving in
\* any order; every selection has a file chosen.
SelectRacing ==
    Len(pending) < MaxPending /\ \E file \in RaceFiles : handleFileChange(file)

NextRace == SelectRacing \/ Resume

SpecRace == Init /\ [][NextRace]_vars

(***************************************************************************)
(* minutesBetween on its own: a start and an end are drawn, then the       *)
(* function is applied.  minutes is <<>> before and <<result>> after.      *)
(***************************************************************************)
TimeSamples ==
    {k * (MsPerMinute \div 2) + d : k \in 0..MaxHalfMinutes, d \in {-1, 0, 1}}

InitMinutes ==
    /\ AppInit /\ OrderIdle
    /\ start \in TimeSamples
    /\ end \in TimeSamples
    /\ minutes = <<>>

ComputeMinutes ==
    /\ minutes = <<>>
    /\ minutes' = <<minutesBetween(start, end)>>
    /\ UNCHANGED <<appVars, orderVars, start, end>>

SpecMinutes == InitMinutes /\ [][ComputeMinutes]_vars

(***************************************************************************)
(* One sheet processed in two row orders: the rows and a permutation of    *)
(* their positions are drawn, then both sheets are processed.              *)
(***************************************************************************)
InitOrder ==
    /\ AppInit /\ MinutesIdle
    /\ sheetRows \in SeqsUpTo(PermRowPool, MaxPermRows)
    /\ order \in Permutations(1..Len(sheetRows))
    /\ outcomes = <<>>

Permuted == [i \in 1..Len(sheetRows) |-> sheetRows[order[i]]]

ProcessBoth ==
    /\ outcomes = <<>>
    /\ outcomes' = <<Process(SheetFile("upload.xlsx", sheetRows)),
                     Process(SheetFile("upload.xlsx", Permuted))>>
    /\ UNCHANGED <<appVars, minutesVars, sheetRows, order>>

SpecOrder == InitOrder /\ [][ProcessBoth]_vars

(***************************************************************************)
(* Properties.                                                             *)
(***************************************************************************)
RECURSIVE SumSeq(_)
SumSeq(s) == IF s = <<>> THEN 0 ELSE Head(s) + SumSeq(Tail(s))

\* q, a quotient [num, den], is the number num / den.
RatEq(q, num, den) == q.den # 0 /\ den # 0 /\ q.num * den = num * q.den

PastPreRowChecks(file) ==
    /\ file.readable
    /\ file.hasSheet
    /\ Len(file.rows) > 0
    /\ RequiredSet \subseteq file.columns

\* A run of a file that passed the pre-row checks ended in the last step.
RunEnded == exit.done /\ PastPreRowChecks(exit.file.v)

\* A run ended in the last step and published a result.
RunSucceeded == RunEnded /\ error = NoError

\* C1: for every run past the pre-row checks, the published skipped count
\* plus the number of published validated records is the number of raw
\* rows, the run in which every row fails validation included.
C1_SkippedPlusValidatedIsRowCount ==
    RunEnded => skippedCount + Len(parsedRows) = Len(exit.file.v.rows)

\* C2: whenever no run is in progress (and one has ended), exactly one of
\* "error shown, no records, no agent metrics, no team metrics" and "no
\* error, records, agent metrics and team metrics all populated" holds.
C2_ExactlyOneOfResultAndError ==
    (pending = <<>> /\ exit.done) =>
        LET errorOnly == /\ error # NoError /\ parsedRows = <<>>
                         /\ agents = <<>> /\ ~teamMetrics.ok
            resultOnly == /\ error = NoError /\ parsedRows # <<>>
                          /\ agents # <<>> /\ teamMetrics.ok
        IN errorOnly # resultOnly

\* C3: every validated record has totalTat = waitingTime + handlingTime,
\* whatever the millisecond values of its three dates.
C3_TotalIsWaitingPlusHandling ==
    \A i \in 1..Len(parsedRows) :
        parsedRows[i].totalTat = parsedRows[i].waitingTime + parsedRows[i].handlingTime

\* C4: minutesBetween(start, end) is the integer nearest to
\* (end - start) / 60000 (a tie going up) when end >= start, fails when
\* end < start, and is never negative.
C4_MinutesBetweenRounds ==
    minutes # <<>> =>
        LET r == minutes[1]
            d == end - start
        IN /\ (d >= 0) => /\ r.ok
                          /\ 2 * r.v * MsPerMinute <= 2 * d + MsPerMinute
                          /\ 2 * r.v * MsPerMinute > 2 * d - MsPerMinute
           /\ (d < 0) => ~r.ok
           /\ r.ok => r.v >= 0

\* The end less than half a minute before the start: the quotient would
\* round to zero, and the function fails.
C4_Witness ==
    /\ minutes # <<>>
    /\ end < start
    /\ 2 * (start - end) < MsPerMinute
    /\ ~minutes[1].ok

\* The condition under which C5 says a raw row is accepted.
Accepted(row) ==
    /\ Trim(StringOf(row.patientCode)) # <<>>
    /\ Trim(StringOf(row.userName)) # <<>>
    /\ Trim(StringOf(row.doctorName)) # <<>>
    /\ parseDate(row.sentDate).ok
    /\ parseDate(row.deliveredDate).ok
    /\ parseDate(row.approvedDate).ok
    /\ parseDate(row.sentDate).v <= parseDate(row.deliveredDate).v
    /\ parseDate(row.deliveredDate).v <= parseDate(row.approvedDate).v

\* C5: a raw row yields a validated record exactly when its three texts are
\* non-empty after trimming, its three dates normalise and sent <=
\* delivered <= approved; any other row yields no record, adds exactly 1
\* to the skipped count, raises no fatal error and does not stop the loop.
C5_RowAcceptedIffValid ==
    RunEnded =>
        LET rows == exit.file.v.rows
            accepted == SelectSeq(rows, Accepted)
        IN /\ Len(exit.parsed) = Len(accepted)
           /\ exit.skipped = Len(rows) - Len(accepted)
           /\ \A k \in 1..Len(accepted) :
                /\ exit.parsed[k].patientCode = Trim(StringOf(accepted[k].patientCode))
                /\ exit.parsed[k].userName = Trim(StringOf(accepted[k].userName))
                /\ exit.parsed[k].doctorName = Trim(StringOf(accepted[k].doctorName))
                /\ exit.parsed[k].sentDate = parseDate(accepted[k].sentDate).v
                /\ exit.parsed[k].deliveredDate = parseDate(accepted[k].deliveredDate).v
                /\ exit.parsed[k].approvedDate = parseDate(accepted[k].approvedDate).v
           /\ error = IF accepted = <<>> THEN ErrorOf("NoValidRows") ELSE NoError

\* A run that skipped a row whose only fault is a delivery 20 seconds
\* before the sending, and went on to accept a later row.
C5_Witness ==
    /\ RunEnded
    /\ Len(exit.file.v.rows) >= 3
    /\ exit.file.v.rows[1] = RowBackwards
    /\ exit.file.v.rows[2] = RowNoDoctor
    /\ exit.skipped = 2
    /\ Len(exit.parsed) >= 1

\* C6: in a successful run there is exactly one agent entry per distinct
\* userName of the validated records, its totalRequests is the number of
\* records of that userName (so >= 1), and the totalRequests sum up to the
\* number of validated records.
C6_AgentsPartitionRecords ==
    RunSucceeded =>
        LET names == {parsedRows[i].userName : i \in 1..Len(parsedRows)}
            recordsOf(u) == LET is(r) == r.userName = u IN Len(SelectSeq(parsedRows, is))
        IN /\ {agents[k].userName : k \in 1..Len(agents)} = names
           /\ Len(agents) = Cardinality(names)
           /\ \A k \in 1..Len(agents) :
                /\ agents[k].totalRequests = recordsOf(agents[k].userName)
                /\ agents[k].totalRequests >= 1
           /\ SumSeq([k \in 1..Len(agents) |-> agents[k].totalRequests])
                = Len(parsedRows)

\* A successful run with several agents, one of them with several records
\* that are not adjacent in the sheet.
C6_Witness ==
    /\ RunSucceeded
    /\ Len(agents) >= 2
    /\ Len(parsedRows) >= 3
    /\ parsedRows[1].userName = parsedRows[3].userName
    /\ parsedRows[1].userName # parsedRows[2].userName

HourCount(h) == LET at(r) == getHours(r.sentDate) = h IN Len(SelectSeq(parsedRows, at))

\* C7: in a successful run peakHours has at most 3 entries, is sorted by
\* count descending, has no entry of count 0, each entry's count is the
\* number of validated records sent in that hour, and no hour left out
\* has a larger count than a listed one (the top 3 non-zero hours).
C7_PeakHoursAreTopThree ==
    RunSucceeded =>
        LET ph == teamMetrics.v.peakHours
            listed == {ph[k].hour : k \in 1..Len(ph)}
            nonZero == {h \in 0..23 : HourCount(h) > 0}
        IN /\ Len(ph) <= PeakHourCount
           /\ \A k \in 1..(Len(ph) - 1) : ph[k].count >= ph[k + 1].count
           /\ \A k \in 1..Len(ph) :
                /\ ph[k].count > 0
                /\ ph[k].hour \in 0..23
                /\ ph[k].count = HourCount(ph[k].hour)
           /\ Cardinality(listed) = Len(ph)
           /\ \A h \in (0..23) \ listed :
                \A k \in 1..Len(ph) : HourCount(h) <= ph[k].count
           /\ Len(ph) = IF Cardinality(nonZero) < PeakHourCount
                        THEN Cardinality(nonZero) ELSE PeakHourCount

\* A successful run whose records fall in more than three hours of the
\* day, so that a non-zero hour is left out.
C7_Witness ==
    /\ RunSucceeded
    /\ Cardinality({h \in 0..23 : HourCount(h) > 0}) > PeakHourCount
    /\ Len(teamMetrics.v.peakHours) = PeakHourCount

\* C8: in a successful run each agent's handlingSla is 100 x (its records
\* with handlingTime <= 20) / totalRequests, its averageHandlingTime is the
\* sum of its handlingTime / totalRequests, the team's assignmentSla is
\* 100 x (records with waitingTime <= 10) / (number of records), and both
\* percentages lie in [0, 100].
C8_SlaAndAverages ==
    RunSucceeded =>
        LET of(u, r) == r.userName = u
            total(u) == LET mine(r) == of(u, r) IN Len(SelectSeq(parsedRows, mine))
            inSla(u) == LET met(r) == of(u, r) /\ r.handlingTime <= 20
                        IN Len(SelectSeq(parsedRows, met))
            handling(u) ==
                SumSeq([i \in 1..Len(parsedRows) |->
                           IF of(u, parsedRows[i]) THEN parsedRows[i].handlingTime
                           ELSE 0])
            waited(r) == r.waitingTime <= 10
            between0and100(q) ==
                q.den > 0 /\ q.num >= 0 /\ q.num <= 100 * q.den
        IN /\ \A k \in 1..Len(agents) :
                LET u == agents[k].userName
                IN /\ RatEq(agents[k].handlingSla, 100 * inSla(u), total(u))
                   /\ RatEq(agents[k].averageHandlingTime, handling(u), total(u))
                   /\ between0and100(agents[k].handlingSla)
           /\ RatEq(teamMetrics.v.assignmentSla,
                    100 * Len(SelectSeq(parsedRows, waited)), Len(parsedRows))
           /\ between0and100(teamMetrics.v.assignmentSla)

\* A successful run with an agent whose records all meet the handling
\* threshold, one of them exactly (handlingSla 100%), an agent with one
\* record within and one above the threshold (50%), and a record exactly
\* on the waiting threshold.
C8_Witness ==
    /\ RunSucceeded
    /\ \E k \in 1..Len(agents) :
         /\ RatEq(agents[k].handlingSla, 100, 1)
         /\ \E i \in 1..Len(parsedRows) :
              /\ parsedRows[i].userName = agents[k].userName
              /\ parsedRows[i].handlingTime = 20
    /\ \E k \in 1..Len(agents) :
         /\ agents[k].totalRequests = 2
         /\ RatEq(agents[k].handlingSla, 50, 1)
    /\ \E i \in 1..Len(parsedRows) : parsedRows[i].waitingTime = 10

Range(s) == {s[i] : i \in 1..Len(s)}

SameMultiset(a, b) ==
    \A x \in Range(a) \cup Range(b) :
        LET is(y) == y = x IN Len(SelectSeq(a, is)) = Len(SelectSeq(b, is))

SameOption(a, b) == a.ok = b.ok /\ (a.ok => a.v = b.v)

\* What C9 says of the two outcomes, the order of the agent entries apart.
SameUpToAgentOrder(a, b) ==
    /\ a.error = b.error
    /\ SameMultiset(a.parsed, b.parsed)
    /\ a.skipped = b.skipped
    /\ SameOption(a.teamStats, b.teamStats)
    /\ Range(a.agentMetrics) = Range(b.agentMetrics)
    /\ Len(a.agentMetrics) = Len(b.agentMetrics)

\* C9 as stated: a permutation of the rows changes neither the multiset of
\* validated records, nor the skipped count, nor the team metrics, nor the
\* agent entries and their order.
C9_OrderIndependent ==
    outcomes # <<>> =>
        /\ SameUpToAgentOrder(outcomes[1], outcomes[2])
        /\ outcomes[1].agentMetrics = outcomes[2].agentMetrics

\* C9 amended: as C9, but the agent entries are the same set, in an order
\* that is descending by totalRequests in both runs, so that the two
\* orders differ at most among entries of equal totalRequests.
C9_OrderIndependentUpToTies ==
    outcomes # <<>> =>
        /\ SameUpToAgentOrder(outcomes[1], outcomes[2])
        /\ \A k \in 1..Len(outcomes[1].agentMetrics) :
             outcomes[1].agentMetrics[k].totalRequests
                = outcomes[2].agentMetrics[k].totalRequests

\* Two orders of a sheet with valid and skipped rows whose agent entries
\* come out in different orders.
C9_Witness ==
    /\ outcomes # <<>>
    /\ outcomes[1].skipped >= 1
    /\ Len(outcomes[1].parsed) >= 2
    /\ outcomes[1].agentMetrics # outcomes[2].agentMetrics

\* The display a run of file shows when it is the only run.
ShowsOutcomeOf(file) ==
    LET out == Process(file)
    IN IF out.error = NoError
       THEN /\ error = NoError
            /\ parsedRows = out.parsed
            /\ agents = out.agentMetrics
            /\ SameOption(teamMetrics, out.teamStats)
            /\ skippedCount = out.skipped
       ELSE /\ error = out.error
            /\ parsedRows = <<>>
            /\ agents = <<>>
            /\ ~teamMetrics.ok
            /\ skippedCount = 0

\* C10: once every run has ended, the display is the outcome of the file
\* selected last (the one whose name is shown), in whatever order the
\* reads resolved.
C10_LastSelectionWins ==
    (pending = <<>> /\ exit.done /\ inputFile.ok) =>
        /\ fileName = Some(inputFile.v.name)
        /\ ShowsOutcomeOf(inputFile.v)

====
